---- MODULE Spec2Model ----
(***************************************************************************)
(* Projected Gradient Descent (PyTorch variant) of the Adversarial         *)
(* Robustness Toolbox: generate / _generate_batch / _compute and the three  *)
(* tensor helpers _compute_perturbation, _apply_perturbation, _projection.  *)
(*                                                                         *)
(* Numbers.  Tensors hold float32 values; here a value is an integer count  *)
(* of grid steps, Scale grid steps making 1.0 (eps = 0.3 is 30).  Norms and  *)
(* normalised directions are carried SubGrid times finer, and every         *)
(* division rounds to the nearest representable value, as a float division  *)
(* does.  tol is the smallest positive amount of the finer grid.            *)
(***************************************************************************)
EXTENDS Integers, Sequences, FiniteSets, TLC

\* ------------------------------------------------------------------ bounds
MaxIter == 2
MaxRandomInit == 2
MaxSamples == 3
MaxBatchSize == 2
\* rows of x times random restarts: the random offsets one pass sequence draws per step
MaxDraws == 4
SubGrid == 100
GridStep == 1

\* ------------------------------------------------------- program constants
tol == 1

Features == {1, 2}
NormSet == {"inf", "1", "2", "3"}
SupportedNorms == {"inf", "1", "2"}
EpsSet == {30}
EpsStepSet == {10, 20}
ClipSet == {<<>>, <<0, 100>>}
XRows == <<(<<50, 20>>), (<<95, 120>>)>>
MaskVecs == {<<1, 0>>}
GradSet == {<<2, -1>>, <<0, 0>>}
Rates == {0, 50}
ProjVals == {-40, -15, 0, 7, 30, 31}

\* ------------------------------------------------------- scalar arithmetic
Abs(a) == IF a < 0 THEN -a ELSE a
Sign(a) == IF a > 0 THEN 1 ELSE IF a < 0 THEN -1 ELSE 0
Min(a, b) == IF a <= b THEN a ELSE b
Max(a, b) == IF a >= b THEN a ELSE b

\* a / b for b > 0, rounded to the nearest grid value
RoundDiv(a, b) == Sign(a) * ((2 * Abs(a) + b) \div (2 * b))

RECURSIVE SqrtSearch(_, _, _)
SqrtSearch(lo, hi, n) ==
    IF hi - lo <= 1 THEN lo
    ELSE LET mid == (lo + hi) \div 2
         IN IF mid * mid <= n THEN SqrtSearch(mid, hi, n) ELSE SqrtSearch(lo, mid, n)

\* floor of the square root
ISqrt(n) == SqrtSearch(0, Min(n, 46340) + 1, n)

\* ------------------------------------------------------- per-sample norms
SumAbs(v) == Abs(v[1]) + Abs(v[2])
SumSq(v) == v[1] * v[1] + v[2] * v[2]
MaxAbs(v) == Max(Abs(v[1]), Abs(v[2]))

\* torch.sum(|.|) and torch.norm(p=1): L1 norm in fine-grid units
Norm1(v) == SubGrid * SumAbs(v)
\* torch.sqrt(torch.sum(. * .)) and torch.norm(p=2): L2 norm in fine-grid units
Norm2(v) == ISqrt(SumSq(v) * SubGrid * SubGrid)


\* ------------------------------------------------------------------ state
VARIABLES
    norm, eps, eps_step, max_iter, targeted, num_random_init, batch_size,
    clip_values,      \* self.estimator.clip_values: <<>> is None, else <<min, max>>
    estimator,        \* the raw loss gradient the estimator answers with
    x,                \* the argument of generate: one row per sample
    mask_arg,         \* the mask keyword: none, one row to broadcast, or a row per sample
    mask,             \* the mask column of the dataset: <<>> is None
    heap,             \* the numpy arrays allocated by generate, one per pass
    adv_x,            \* reference into heap (0 before the first pass)
    adv_x_best,       \* reference into heap, 0 is None
    rate_best,        \* -1 is None
    pass,             \* passes begun so far (the loop over range(max(1, num_random_init)))
    batch_id,         \* next batch of the data loader
    inputs,           \* _generate_batch: the batch's original rows
    mask_batch,       \* _generate_batch: the batch's mask rows, <<>> is None
    cur,              \* _generate_batch: the local adv_x tensor
    i_max_iter,       \* _generate_batch: the loop index
    pc,               \* position in generate
    returned,         \* the array generate returned, <<>> before
    errAt,            \* the function that raised NotImplementedError, "" if none
    lastCall,         \* the arguments and place of the latest _compute call
    nCompute,         \* _compute calls entered
    nSampled,         \* random_sphere calls
    written,          \* per output row: writes during the current pass
    srcRow,           \* per output row: the sample of x its content was computed from
    passRate,         \* per finished pass: the success rate measured (-1: not measured)
    batchIdx,         \* the rows of x the data loader put in the current batch
    passResult        \* per finished pass: the content of its array when it finished

vars == <<norm, eps, eps_step, max_iter, targeted, num_random_init, batch_size,
          clip_values, estimator, x, mask_arg, mask, heap, adv_x, adv_x_best,
          rate_best, pass, batch_id, inputs, mask_batch, cur, i_max_iter, pc,
          returned, errAt, lastCall, nCompute, nSampled, written, srcRow, passRate,
          batchIdx, passResult>>

config == <<norm, eps, eps_step, max_iter, targeted, num_random_init, batch_size,
            clip_values, estimator, x, mask_arg>>

\* ---------------------------------------------------------- tensor helpers
\* elementwise map over a batch (first axis) of samples
Rows(t) == 1..Len(t)
SubT(a, b) == [j \in Rows(a) |-> [i \in Features |-> a[j][i] - b[j][i]]]
AddT(a, b) == [j \in Rows(a) |-> [i \in Features |-> a[j][i] + b[j][i]]]
MulT(a, b) == [j \in Rows(a) |-> [i \in Features |-> a[j][i] * b[j][i]]]

HasClip == clip_values # <<>>

\* torch.clamp(t, clip_min, clip_max)
Clamp(t) ==
    [j \in Rows(t) |-> [i \in Features |-> Min(Max(t[j][i], clip_values[1]), clip_values[2])]]

\* estimator.loss_gradient_framework(x, y): one raw gradient row per sample
LossGradient(xs) == [j \in Rows(xs) |-> estimator]

\* art.utils.random_sphere(n, m, eps, norm): the candidate offsets of one sample
InBallExact(v, radius, p) ==
    CASE p = "inf" -> MaxAbs(v) <= radius
      [] p = "1" -> SumAbs(v) <= radius
      [] p = "2" -> SumSq(v) <= radius * radius
      [] OTHER -> MaxAbs(v) <= radius

OffsetSet(radius) == {<<-radius, 0>>, <<radius \div 2, radius \div 2>>}

random_sphere(n, radius, p) ==
    [1..n -> {v \in OffsetSet(radius) : InBallExact(v, radius, p)}]

\* _compute_perturbation, lines 247-270; grad is the estimator's answer
NormaliseGrad(g) ==
    CASE norm = "inf" -> [i \in Features |-> Sign(g[i]) * SubGrid]
      [] norm = "1" ->
            [i \in Features |-> RoundDiv(g[i] * SubGrid * SubGrid, Norm1(g) + tol)]
      [] norm = "2" ->
            [i \in Features |-> RoundDiv(g[i] * SubGrid * SubGrid, Norm2(g) + tol)]
      [] OTHER -> [i \in Features |-> g[i] * SubGrid]

_compute_perturbation(xs, m) ==
    LET flip == IF targeted THEN -1 ELSE 1
        raw == LossGradient(xs)
        grad == [j \in Rows(xs) |->
                    NormaliseGrad([i \in Features |-> raw[j][i] * flip])]
    IN IF m = <<>> THEN grad ELSE MulT(grad, m)

\* _apply_perturbation, lines 285-291; perturbation is in fine-grid units
_apply_perturbation(xs, perturbation, step) ==
    LET moved == [j \in Rows(xs) |->
                    [i \in Features |->
                        xs[j][i] + RoundDiv(step * perturbation[j][i], SubGrid)]]
    IN IF HasClip THEN Clamp(moved) ELSE moved

\* the scaling without torch.min(1.0, .): every sample is put on the sphere
ScaleToSphere(v, radius, normFine) ==
    [i \in Features |-> RoundDiv(v[i] * radius * SubGrid, normFine + tol)]

\* _projection, lines 371-378: values_tmp * min(1.0, eps / (norm + tol)), one sample
ScaleToBall(v, radius, normFine) ==
    IF radius * SubGrid >= normFine + tol
    THEN v
    ELSE [i \in Features |-> RoundDiv(v[i] * radius * SubGrid, normFine + tol)]

\* _projection, lines 370-383: one sample
ProjectSample(v, radius, norm_p) ==
    CASE norm_p = "2" -> ScaleToBall(v, radius, Norm2(v))
      [] norm_p = "1" -> ScaleToBall(v, radius, Norm1(v))
      [] OTHER -> [i \in Features |-> Sign(v[i]) * Min(Abs(v[i]), radius)]

\* a projection without the else branch: any other norm is clipped like inf
_projection_no_raise(values, radius, norm_p) ==
    [raised |-> FALSE,
     values |-> [j \in Rows(values) |-> ProjectSample(values[j], radius, norm_p)]]

\* _projection: the whole batch, or the raise of the else branch
_projection(values, radius, norm_p) ==
    IF norm_p \in SupportedNorms
    THEN [raised |-> FALSE,
          values |-> [j \in Rows(values) |-> ProjectSample(values[j], radius, norm_p)]]
    ELSE [raised |-> TRUE, values |-> <<>>]

\* _compute, lines 320-337: the starting point of the step
StartPoint(xs, m, random_init, offset) ==
    IF random_init
    THEN LET random_perturbation == IF m = <<>> THEN offset ELSE MulT(offset, m)
             x_adv == AddT(xs, random_perturbation)
         IN IF HasClip THEN Clamp(x_adv) ELSE x_adv
    ELSE xs

\* the step with the ball centred on the previous iterate instead of x_init
_compute_recentred(xs, x_init, m, radius, step, random_init, offset) ==
    LET x_adv == StartPoint(xs, m, random_init, offset)
        perturbation == _compute_perturbation(x_adv, m)
        stepped == _apply_perturbation(x_adv, perturbation, step)
        proj == _projection(SubT(stepped, xs), radius, norm)
    IN IF proj.raised
       THEN [raised |-> TRUE, by |-> "_projection", values |-> <<>>]
       ELSE [raised |-> FALSE, by |-> "", values |-> AddT(proj.values, xs)]

\* _compute, lines 339-351
_compute(xs, x_init, m, radius, step, random_init, offset) ==
    LET x_adv == StartPoint(xs, m, random_init, offset)
        perturbation == _compute_perturbation(x_adv, m)
        stepped == _apply_perturbation(x_adv, perturbation, step)
        proj == _projection(SubT(stepped, x_init), radius, norm)
    IN IF proj.raised
       THEN [raised |-> TRUE, by |-> "_projection", values |-> <<>>]
       ELSE [raised |-> FALSE, by |-> "", values |-> AddT(proj.values, x_init)]


\* ------------------------------------------------------------ data loader
NbSamples == Len(x)

\* a data loader that drops the last, smaller batch
NumBatchesDropLast == NbSamples \div batch_size

\* torch DataLoader(batch_size, shuffle=False, drop_last=False): number of batches
NumBatches == (NbSamples + batch_size - 1) \div batch_size

\* the rows of the dataset in batch k (k counts from 0)
BatchRows(k) ==
    [j \in 1..Min(batch_size, NbSamples - k * batch_size) |-> k * batch_size + j]

\* numpy: arr[b1:b2] = val
SliceAssign(arr, b1, b2, val) ==
    [r \in 1..Len(arr) |->
        IF b1 < r /\ r <= Min(b2, Len(arr)) THEN val[r - b1] ELSE arr[r]]

\* one pass more than configured
NumPassesPlusOne == num_random_init + 1

\* range(max(1, self.num_random_init))
NumPasses == Max(1, num_random_init)

\* the loop stopping one iteration early
InRangeShort(i) == i < max_iter - 1

\* for i_max_iter in range(self.max_iter): the loop goes on
InRange(i) == i < max_iter

\* a pass that only equals the retained rate replaces it too
BetterOrEqual(rate) == rate_best = -1 \/ rate >= rate_best \/ adv_x_best = 0

\* line 185: this pass replaces the retained one
Better(rate) == rate_best = -1 \/ rate > rate_best \/ adv_x_best = 0

\* the flag raised once per generate call only
RandomInitFlagOnce(i) == num_random_init > 0 /\ i = 0 /\ pass = 1 /\ batch_id = 0

\* self.num_random_init > 0 and i_max_iter == 0
RandomInitFlag(i) == num_random_init > 0 /\ i = 0

\* lines 138-158: the mask column of the TensorDataset
DatasetMask ==
    CASE mask_arg.kind = "none" -> <<>>
      [] mask_arg.kind = "per_sample" -> mask_arg.val
      [] OTHER -> [j \in 1..NbSamples |-> mask_arg.val[1]]

\* x.astype(ART_NUMPY_DTYPE): a fresh array holding a copy of x
NewArray(h) == Append(h, x)

NoCall == [random_init |-> FALSE, pass |-> 0, batch_id |-> 0, i_max_iter |-> 0,
           sampled |-> FALSE, offset |-> <<>>, start |-> <<>>, x_init |-> <<>>,
           m |-> <<>>]

\* ---------------------------------------------------------------- initial
PerSampleMask(n) == [j \in 1..n |-> IF j % 2 = 1 THEN <<0, 1>> ELSE <<1, 1>>]

MaskArgs(n) ==
    {[kind |-> "none", val |-> <<>>]}
    \cup {[kind |-> "broadcast", val |-> <<v>>] : v \in MaskVecs}
    \cup {[kind |-> "per_sample", val |-> PerSampleMask(n)]}

\* the arrays x ranges over: n consecutive rows of the cycle XRows
XArrays ==
    {[j \in 1..n |-> XRows[((j + shift) % Len(XRows)) + 1]] :
        n \in 1..MaxSamples, shift \in 0..(Len(XRows) - 1)}

Init ==
    /\ norm \in NormSet
    /\ eps \in EpsSet
    /\ eps_step \in EpsStepSet
    /\ max_iter \in 0..MaxIter
    /\ targeted \in BOOLEAN
    /\ num_random_init \in 0..MaxRandomInit
    /\ batch_size \in 1..MaxBatchSize
    /\ clip_values \in ClipSet
    /\ estimator \in GradSet
    /\ x \in XArrays
    /\ Len(x) * num_random_init <= MaxDraws
    /\ mask_arg \in MaskArgs(Len(x))
    /\ mask = <<>>
    /\ heap = <<>>
    /\ adv_x = 0
    /\ adv_x_best = 0
    /\ rate_best = -1
    /\ pass = 0
    /\ batch_id = 0
    /\ inputs = <<>>
    /\ mask_batch = <<>>
    /\ cur = <<>>
    /\ i_max_iter = 0
    /\ pc = "start"
    /\ returned = <<>>
    /\ errAt = ""
    /\ lastCall = NoCall
    /\ nCompute = 0
    /\ nSampled = 0
    /\ written = [r \in 1..Len(x) |-> 0]
    /\ srcRow = [r \in 1..Len(x) |-> 0]
    /\ passRate = <<>>
    /\ batchIdx = <<>>
    /\ passResult = <<>>

\* ---------------------------------------------------------------- actions
\* generate, lines 128-166: mask, dataset, data loader, adv_x_best = rate_best = None
Generate ==
    /\ pc = "start"
    /\ mask' = DatasetMask
    /\ adv_x_best' = 0
    /\ rate_best' = -1
    /\ pc' = "pass"
    /\ UNCHANGED <<config, heap, adv_x, pass, batch_id, inputs, mask_batch, cur,
                   i_max_iter, returned, errAt, lastCall, nCompute, nSampled,
                   written, srcRow, passRate, batchIdx, passResult>>

\* generate, lines 168-169: the next pass starts from a fresh copy of x
BeginPass ==
    /\ pc = "pass"
    /\ pass < NumPasses
    /\ heap' = NewArray(heap)
    /\ adv_x' = Len(heap')
    /\ pass' = pass + 1
    /\ batch_id' = 0
    /\ written' = [r \in 1..NbSamples |-> 0]
    /\ srcRow' = [r \in 1..NbSamples |-> 0]
    /\ pc' = "batches"
    /\ UNCHANGED <<config, mask, adv_x_best, rate_best, inputs, mask_batch, cur,
                   i_max_iter, returned, errAt, lastCall, nCompute, nSampled,
                   passRate, batchIdx, passResult>>

\* generate, lines 172-178, and _generate_batch, lines 215-220
NextBatch ==
    /\ pc = "batches"
    /\ batch_id < NumBatches
    /\ batchIdx' = BatchRows(batch_id)
    /\ inputs' = [j \in Rows(batchIdx') |-> x[batchIdx'[j]]]
    /\ mask_batch' = IF mask = <<>> THEN <<>>
                     ELSE [j \in Rows(batchIdx') |-> mask[batchIdx'[j]]]
    /\ cur' = inputs'
    /\ i_max_iter' = 0
    /\ pc' = "iterate"
    /\ UNCHANGED <<config, mask, heap, adv_x, adv_x_best, rate_best, pass, batch_id,
                   returned, errAt, lastCall, nCompute, nSampled, written, srcRow,
                   passRate, passResult>>

\* the offsets random_sphere may return for this call (none is drawn without the flag)
Offsets(flag) ==
    IF flag THEN random_sphere(Len(cur), eps, norm) ELSE {<<>>}

CallRecord(flag, offset) ==
    [random_init |-> flag, pass |-> pass, batch_id |-> batch_id,
     i_max_iter |-> i_max_iter, sampled |-> flag, offset |-> offset,
     start |-> StartPoint(cur, mask_batch, flag, offset), x_init |-> inputs,
     m |-> mask_batch]

\* lines 223-225: the call of _compute on the current iterate
StepResult(offset) ==
    _compute(cur, inputs, mask_batch, eps, eps_step, RandomInitFlag(i_max_iter), offset)

\* _generate_batch, lines 222-225: one iteration, _compute returns
Compute ==
    /\ pc = "iterate"
    /\ InRange(i_max_iter)
    /\ \E offset \in Offsets(RandomInitFlag(i_max_iter)) :
          /\ ~StepResult(offset).raised
          /\ cur' = StepResult(offset).values
          /\ lastCall' = CallRecord(RandomInitFlag(i_max_iter), offset)
    /\ nSampled' = IF RandomInitFlag(i_max_iter) THEN nSampled + 1 ELSE nSampled
    /\ i_max_iter' = i_max_iter + 1
    /\ nCompute' = nCompute + 1
    /\ UNCHANGED <<config, mask, heap, adv_x, adv_x_best, rate_best, pass, batch_id,
                   inputs, mask_batch, pc, returned, errAt, written, srcRow,
                   passRate, batchIdx, passResult>>

\* _generate_batch, lines 222-225: one iteration, _compute raises and generate aborts
ComputeRaise ==
    /\ pc = "iterate"
    /\ InRange(i_max_iter)
    /\ \E offset \in Offsets(RandomInitFlag(i_max_iter)) :
          /\ StepResult(offset).raised
          /\ errAt' = StepResult(offset).by
          /\ lastCall' = CallRecord(RandomInitFlag(i_max_iter), offset)
    /\ nSampled' = IF RandomInitFlag(i_max_iter) THEN nSampled + 1 ELSE nSampled
    /\ nCompute' = nCompute + 1
    /\ pc' = "failed"
    /\ UNCHANGED <<config, mask, heap, adv_x, adv_x_best, rate_best, pass, batch_id,
                   inputs, mask_batch, cur, i_max_iter, returned, written, srcRow,
                   passRate, batchIdx, passResult>>

\* _generate_batch, line 227, and generate, lines 178-179
WriteBatch ==
    /\ pc = "iterate"
    /\ ~InRange(i_max_iter)
    /\ LET batch_index_1 == batch_id * batch_size
           batch_index_2 == (batch_id + 1) * batch_size
       IN /\ heap' = [heap EXCEPT ![adv_x] =
                        SliceAssign(heap[adv_x], batch_index_1, batch_index_2, cur)]
          /\ written' = [r \in 1..NbSamples |->
                           IF batch_index_1 < r /\ r <= Min(batch_index_2, NbSamples)
                           THEN written[r] + 1 ELSE written[r]]
          /\ srcRow' = SliceAssign(srcRow, batch_index_1, batch_index_2, batchIdx)
    /\ batch_id' = batch_id + 1
    /\ pc' = "batches"
    /\ UNCHANGED <<config, mask, adv_x, adv_x_best, rate_best, pass, inputs,
                   mask_batch, cur, i_max_iter, returned, errAt, lastCall, nCompute,
                   nSampled, passRate, batchIdx, passResult>>

\* generate, lines 181-189: rate is what compute_success measures on this pass
EndPass ==
    /\ pc = "batches"
    /\ batch_id = NumBatches
    /\ IF num_random_init > 1
       THEN \E rate \in Rates :
               /\ passRate' = Append(passRate, rate)
               /\ IF Better(rate)
                  THEN rate_best' = rate /\ adv_x_best' = adv_x
                  ELSE UNCHANGED <<rate_best, adv_x_best>>
       ELSE /\ adv_x_best' = adv_x
            /\ passRate' = Append(passRate, -1)
            /\ UNCHANGED rate_best
    /\ passResult' = Append(passResult, heap[adv_x])
    /\ pc' = "pass"
    /\ UNCHANGED <<config, mask, heap, adv_x, pass, batch_id, inputs, mask_batch,
                   cur, i_max_iter, returned, errAt, lastCall, nCompute, nSampled,
                   written, srcRow, batchIdx>>

\* generate, lines 191-198
Return ==
    /\ pc = "pass"
    /\ pass = NumPasses
    /\ returned' = heap[adv_x_best]
    /\ pc' = "done"
    /\ UNCHANGED <<config, mask, heap, adv_x, adv_x_best, rate_best, pass, batch_id,
                   inputs, mask_batch, cur, i_max_iter, errAt, lastCall, nCompute,
                   nSampled, written, srcRow, passRate, batchIdx, passResult>>

Next ==
    \/ Generate
    \/ BeginPass
    \/ NextBatch
    \/ Compute
    \/ ComputeRaise
    \/ WriteBatch
    \/ EndPass
    \/ Return

Spec == Init /\ [][Next]_vars


\* ------------------------------------------- _projection on its own inputs
\* a batch of two perturbation rows, to be projected twice
ProjInit ==
    /\ norm \in SupportedNorms
    /\ eps \in EpsSet
    /\ cur \in [1..2 -> [Features -> ProjVals]]
    /\ inputs = <<>>
    /\ pc = "proj0"
    /\ eps_step \in EpsStepSet
    /\ max_iter = 0
    /\ targeted = FALSE
    /\ num_random_init = 0
    /\ batch_size = 1
    /\ clip_values = <<>>
    /\ estimator = <<0, 0>>
    /\ x = <<>>
    /\ mask_arg = [kind |-> "none", val |-> <<>>]
    /\ mask = <<>>
    /\ heap = <<>>
    /\ adv_x = 0
    /\ adv_x_best = 0
    /\ rate_best = -1
    /\ pass = 0
    /\ batch_id = 0
    /\ mask_batch = <<>>
    /\ i_max_iter = 0
    /\ returned = <<>>
    /\ errAt = ""
    /\ lastCall = NoCall
    /\ nCompute = 0
    /\ nSampled = 0
    /\ written = <<>>
    /\ srcRow = <<>>
    /\ passRate = <<>>
    /\ batchIdx = <<>>
    /\ passResult = <<>>

\* one call of _projection(values, eps, norm); inputs keeps the argument
Project ==
    /\ pc \in {"proj0", "proj1"}
    /\ ~_projection(cur, eps, norm).raised
    /\ inputs' = cur
    /\ cur' = _projection(cur, eps, norm).values
    /\ pc' = IF pc = "proj0" THEN "proj1" ELSE "proj2"
    /\ UNCHANGED <<config, mask, heap, adv_x, adv_x_best, rate_best, pass, batch_id,
                   mask_batch, i_max_iter, returned, errAt, lastCall, nCompute,
                   nSampled, written, srcRow, passRate, batchIdx, passResult>>

ProjNext == Project

ProjSpec == ProjInit /\ [][ProjNext]_vars

\* ================================================================= claims
DiffRow(a, b) == [i \in Features |-> a[i] - b[i]]

\* the per-sample Lp norm of v is at most radius, up to one grid step of rounding
\* where the projection divides
NormLe(v, radius, p) ==
    CASE p = "inf" -> MaxAbs(v) <= radius
      [] p = "1" -> SumAbs(v) <= radius + GridStep
      [] p = "2" -> SumSq(v) <= (radius + GridStep) * (radius + GridStep)
      [] OTHER -> FALSE

InRangeRow(v) == \A i \in Features : clip_values[1] <= v[i] /\ v[i] <= clip_values[2]

\* C1: after every _compute call, and in every row generate returns (max_iter >= 1),
\* the perturbation measured against the original input of the sample has Lp norm
\* at most eps, up to the rounding tolerance.
C1_PerturbationInBall ==
    /\ (pc = "iterate" /\ i_max_iter > 0) =>
          \A j \in Rows(cur) : NormLe(DiffRow(cur[j], inputs[j]), eps, norm)
    /\ (pc = "done" /\ max_iter >= 1) =>
          \A r \in Rows(returned) : NormLe(DiffRow(returned[r], x[r]), eps, norm)

\* a returned row whose perturbation sits on the sphere after MaxIter steps from a
\* random start
C1_Witness ==
    /\ pc = "done"
    /\ max_iter = MaxIter
    /\ num_random_init > 0
    /\ norm = "2"
    /\ \E r \in Rows(returned) :
          /\ SumSq(DiffRow(returned[r], x[r])) >= (eps - GridStep) * (eps - GridStep)
          /\ DiffRow(returned[r], x[r])[1] # 0
          /\ DiffRow(returned[r], x[r])[2] # 0

C3_MaskFrozen ==
    (pc = "done" /\ mask # <<>>) =>
        \A r \in Rows(returned) : \A i \in Features :
            mask[r][i] = 0 => returned[r][i] = x[r][i]


\* the passes whose measured rate is the highest
MaxRate == CHOOSE m \in {passRate[p] : p \in Rows(passRate)} :
              \A p \in Rows(passRate) : passRate[p] <= m
BestPass == CHOOSE b \in Rows(passRate) :
              /\ passRate[b] = MaxRate
              /\ \A p \in Rows(passRate) : passRate[p] = MaxRate => b <= p

\* C4: with num_random_init > 1 generate returns the whole result of the earliest
\* pass among those with the highest success rate, as that pass left it; with
\* num_random_init <= 1 it returns the single pass's result.
C4_BestOfN ==
    pc = "done" =>
        IF num_random_init > 1
        THEN /\ returned = passResult[BestPass]
             /\ rate_best = MaxRate
        ELSE /\ Len(passResult) = 1
             /\ returned = passResult[1]

\* two passes tie for the highest rate with different results, and the first is returned
C4_Witness ==
    /\ pc = "done"
    /\ num_random_init > 1
    /\ passRate[1] = passRate[2]
    /\ passResult[1] # passResult[2]
    /\ returned = passResult[1]

\* C5 as claimed: the flag is raised on the first step of the first pass only.
C5_FlagFirstStepOfFirstPassOnly ==
    (nCompute > 0 /\ lastCall.random_init) =>
        (lastCall.pass = 1 /\ lastCall.batch_id = 0 /\ lastCall.i_max_iter = 0)

\* C5, amended: _compute gets random_init = TRUE exactly on the first step
\* (i_max_iter = 0) of every batch of every pass when num_random_init > 0, and
\* FALSE on every other step; an offset is drawn exactly when the flag is raised.
C5_FlagFirstStepOfEveryBatch ==
    nCompute > 0 =>
        /\ lastCall.random_init <=> (num_random_init > 0 /\ lastCall.i_max_iter = 0)
        /\ lastCall.sampled <=> lastCall.random_init

\* the flag raised on the first step of the second batch of the second pass
C5_Witness ==
    /\ lastCall.random_init
    /\ lastCall.pass = 2
    /\ lastCall.batch_id = 1
    /\ lastCall.i_max_iter = 0

MaskedOffset(call) ==
    IF call.m = <<>> THEN call.offset ELSE MulT(call.offset, call.m)

\* C6: generate makes max(1, num_random_init) passes; with num_random_init = 0 no
\* offset is ever drawn and the first step of every batch starts from x_init; with
\* num_random_init = 1 the one pass starts every batch from x_init plus a drawn
\* offset (masked, then clipped to the value range).
C6_PassesAndStart ==
    /\ pass <= Max(1, num_random_init)
    /\ pc = "done" => (pass = Max(1, num_random_init) /\ Len(passResult) = pass)
    /\ num_random_init = 0 =>
          /\ nSampled = 0
          /\ (nCompute > 0 /\ lastCall.i_max_iter = 0) => lastCall.start = lastCall.x_init
    /\ (num_random_init = 1 /\ nCompute > 0 /\ lastCall.i_max_iter = 0) =>
          /\ lastCall.sampled
          /\ Len(lastCall.offset) = Len(lastCall.x_init)
          /\ lastCall.start =
                (IF HasClip THEN Clamp(AddT(lastCall.x_init, MaskedOffset(lastCall)))
                 ELSE AddT(lastCall.x_init, MaskedOffset(lastCall)))

\* num_random_init = 1: the call is over after one pass whose batch started off x_init
C6_Witness ==
    /\ pc = "done"
    /\ num_random_init = 1
    /\ pass = 1
    /\ nSampled = NumBatches
    /\ lastCall.start # lastCall.x_init

\* C7 as claimed: with an unsupported norm the direction computation raises, so the
\* call fails in _compute_perturbation, the first of the two to run.
C7_DirectionRaises ==
    (norm \notin SupportedNorms /\ nCompute > 0) =>
        (pc = "failed" /\ errAt = "_compute_perturbation")

\* C7, amended: with an unsupported norm _compute_perturbation raises nothing; the
\* first step of the call fails in _projection, nothing is written or returned, and
\* only a call that runs no step (max_iter = 0) returns.
C7_ProjectionRaises ==
    norm \notin SupportedNorms =>
        /\ nCompute > 0 =>
              (pc = "failed" /\ errAt = "_projection" /\ returned = <<>> /\ nCompute = 1)
        /\ pc = "done" => max_iter = 0
        /\ \A p \in Rows(heap) : heap[p] = x

C7_Witness ==
    /\ norm \notin SupportedNorms
    /\ pc = "failed"
    /\ errAt = "_projection"
    /\ num_random_init = 0

\* the steps generate still has to take: a pass is BeginPass, its batches and EndPass,
\* a batch is NextBatch, max_iter iterations and WriteBatch
BatchCost == max_iter + 2
PassCost == NumBatches * BatchCost + 2
Remaining ==
    CASE pc = "start" -> 2 + Max(1, num_random_init) * PassCost
      [] pc = "pass" -> 1 + (Max(1, num_random_init) - pass) * PassCost
      [] pc = "batches" ->
            2 + (Max(1, num_random_init) - pass) * PassCost
              + (NumBatches - batch_id) * BatchCost
      [] pc = "iterate" ->
            2 + (Max(1, num_random_init) - pass) * PassCost
              + (NumBatches - batch_id - 1) * BatchCost + (max_iter - i_max_iter) + 1
      [] OTHER -> 0

\* short of Done (or the abort) generate always has a next step to take
CanStep ==
    /\ pc = "start" => ENABLED Generate
    /\ pc = "pass" => (ENABLED BeginPass \/ ENABLED Return)
    /\ pc = "batches" => (ENABLED NextBatch \/ ENABLED EndPass)
    /\ pc = "iterate" =>
          \/ ENABLED WriteBatch
          \/ InRange(i_max_iter) /\ Offsets(RandomInitFlag(i_max_iter)) # {}

\* C8: every batch gets exactly max_iter steps, never fewer or more; the call always
\* goes on until Done (only an unsupported norm aborts it), each step bringing it
\* nearer, and is Done after max(1, num_random_init) * number of batches * max_iter
\* steps; max_iter = 0 returns x unchanged.
C8_ExactlyMaxIterSteps ==
    /\ [](i_max_iter <= max_iter)
    /\ []((pc = "batches" /\ batch_id > 0) => i_max_iter = max_iter)
    /\ [](pc = "done" =>
            /\ nCompute = Max(1, num_random_init) * NumBatches * max_iter
            /\ max_iter = 0 => returned = x)
    /\ [](pc = "failed" => norm \notin SupportedNorms)
    /\ [](CanStep)
    /\ [](Remaining >= 0 /\ (Remaining = 0 <=> pc \in {"done", "failed"}))
    /\ [][Remaining' < Remaining]_vars

C8_Witness ==
    /\ pc = "done"
    /\ max_iter = MaxIter
    /\ num_random_init = MaxRandomInit
    /\ NumBatches = 2
    /\ nCompute = MaxRandomInit * 2 * MaxIter

\* C9: a pass takes the rows of x in contiguous batches of batch_size, in order, the
\* last one possibly smaller; batch k is written to rows [k*batch_size,
\* (k+1)*batch_size); every row is written once per pass, from its own sample; the
\* returned array has as many rows as x.
C9_Batching ==
    /\ pc = "iterate" =>
          /\ Len(batchIdx) = Min(batch_size, NbSamples - batch_id * batch_size)
          /\ Len(batchIdx) >= 1
          /\ \A j \in Rows(batchIdx) : batchIdx[j] = batch_id * batch_size + j
          /\ \A j \in Rows(inputs) : inputs[j] = x[batch_id * batch_size + j]
          /\ Len(cur) = Len(batchIdx)
    /\ pc \in {"batches", "iterate"} =>
          \A r \in 1..NbSamples :
              IF r <= batch_id * batch_size
              THEN written[r] = 1 /\ srcRow[r] = r
              ELSE written[r] = 0
    /\ (pc = "pass" /\ pass > 0) =>
          \A r \in 1..NbSamples : written[r] = 1 /\ srcRow[r] = r
    /\ pc = "done" =>
          /\ Len(returned) = NbSamples
          /\ \A r \in 1..NbSamples : DOMAIN returned[r] = Features

\* three rows in batches of two: the last batch holds one row, written to row 3
C9_Witness ==
    /\ pc = "batches"
    /\ NbSamples = 3
    /\ batch_size = 2
    /\ batch_id = 2
    /\ Len(batchIdx) = 1
    /\ srcRow = <<1, 2, 3>>


\* C10: _projection leaves a row that is already within the eps ball unchanged,
\* projecting twice gives the result of projecting once (up to one grid step of
\* rounding), and a row's projection does not depend on the other rows of the batch.
C10_ProjectionIdempotent ==
    /\ pc = "proj1" =>
          \A j \in Rows(cur) :
              /\ InBallExact(inputs[j], eps, norm) => cur[j] = inputs[j]
              /\ cur[j] = _projection(<<inputs[j]>>, eps, norm).values[1]
              /\ NormLe(cur[j], eps, norm)
    /\ pc = "proj2" =>
          \A j \in Rows(cur) : \A i \in Features :
              Abs(cur[j][i] - inputs[j][i]) <= GridStep

\* a batch of one row on the L1 sphere, left alone, and one row outside, scaled down
C10_Witness ==
    /\ pc = "proj1"
    /\ norm = "1"
    /\ SumAbs(inputs[1]) = eps
    /\ cur[1] = inputs[1]
    /\ SumAbs(inputs[2]) > eps
    /\ cur[2] # inputs[2]
    /\ cur[2][1] # 0

====
